---------------------------- MODULE Spec2Model ----------------------------
(***************************************************************************)
(* A model of the AI Gherkin generator: the request handler                *)
(* generate_tests (src/main.py), the Playwright wrapper BrowserManager     *)
(* (src/src/browser_manager.py) and the DOM heuristics of ElementAnalyzer  *)
(* (src/src/element_analyzer.py).                                          *)
(*                                                                         *)
(* A page snapshot is modelled by the tree BeautifulSoup(html, 'lxml')     *)
(* builds from it: a sequence of element nodes in document order, each     *)
(* with its tag, the index of its parent, its attributes and the text      *)
(* node it starts with.  Texts are TLA+ strings, handled character by      *)
(* character as Python handles them.                                       *)
(***************************************************************************)
EXTENDS Integers, Sequences, FiniteSets, TLC

(***************************************************************************)
(* Python string operations                                                *)
(***************************************************************************)

\* str whitespace, as str.strip() and str.split() see it
IsSpace(c) == c \in {" ", "\t", "\n"}

RECURSIVE LStrip(_)
LStrip(s) ==
    IF Len(s) = 0 THEN s
    ELSE IF IsSpace(SubSeq(s, 1, 1)) THEN LStrip(SubSeq(s, 2, Len(s)))
    ELSE s

RECURSIVE RStrip(_)
RStrip(s) ==
    IF Len(s) = 0 THEN s
    ELSE IF IsSpace(SubSeq(s, Len(s), Len(s))) THEN RStrip(SubSeq(s, 1, Len(s) - 1))
    ELSE s

\* s.strip()
Strip(s) == RStrip(LStrip(s))

\* w in t, for two strings
Contains(t, w) ==
    \E i \in 1..(Len(t) - Len(w) + 1) : SubSeq(t, i, i + Len(w) - 1) = w

\* the position of the first whitespace of s, Len(s) + 1 if none
RECURSIVE FirstSpace(_, _)
FirstSpace(s, i) ==
    IF i > Len(s) THEN i
    ELSE IF IsSpace(SubSeq(s, i, i)) THEN i
    ELSE FirstSpace(s, i + 1)

\* s.split(): the maximal runs of non-whitespace characters
RECURSIVE Split(_)
Split(s) ==
    LET t == LStrip(s)
        k == FirstSpace(t, 1)
    IN  IF Len(t) = 0 THEN << >>
        ELSE << SubSeq(t, 1, k - 1) >> \o Split(SubSeq(t, k, Len(t)))

\* "".join(seq)
RECURSIVE Concat(_)
Concat(seq) ==
    IF Len(seq) = 0 THEN "" ELSE Head(seq) \o Concat(Tail(seq))

(***************************************************************************)
(* The parsed document                                                     *)
(***************************************************************************)

NoAttrs == [a \in {} |-> ""]

\* an element: its tag, its parent's index (0: the document), its attributes,
\* and the text node that precedes its children
El(tag, parent, attrs, text) ==
    [tag |-> tag, parent |-> parent, attrs |-> attrs, text |-> text]

\* tag.get(name, '')
Attr(n, name) == IF name \in DOMAIN n.attrs THEN n.attrs[name] ELSE ""

\* tag.get('class', []): the class attribute, split on whitespace
Classes(n) == Split(Attr(n, "class"))

RECURSIVE IsAncestor(_, _, _)
\* a is a proper ancestor of the node i of doc
IsAncestor(doc, a, i) ==
    LET p == doc[i].parent
    IN  IF p = 0 THEN FALSE
        ELSE IF p = a THEN TRUE
        ELSE IsAncestor(doc, a, p)

\* the descendants of node i, in document order
Descendants(doc, i) ==
    SelectSeq([j \in 1..Len(doc) |-> j], LAMBDA j : IsAncestor(doc, i, j))

\* the element and its descendants, in document order
Subtree(doc, i) == << i >> \o Descendants(doc, i)

\* tag.get_text(strip=True): every text node below the tag, stripped, the
\* empty ones dropped, joined with no separator
GetText(doc, i) ==
    Concat([k \in 1..Len(Subtree(doc, i)) |-> Strip(doc[Subtree(doc, i)[k]].text)])

\* soup.find_all(True), in document order
AllTags(doc) == [j \in 1..Len(doc) |-> j]


(***************************************************************************)
(* Program constants                                                       *)
(***************************************************************************)

\* len(el_text) > 10: a selector candidate's text must be longer
MinModalTextLen == 10
\* len(tag_text) > 30: a fallback container's text must be longer
MinFallbackTextLen == 30
\* 1 < len(t) < 200: the first child text taken as the title
MaxTitleLen == 200
\* len(btn_text) < 80
MaxButtonTextLen == 80
\* clickable_elements[:20]
MaxClickProbes == 20
\* interactive_elements[:30]
MaxHoverProbes == 30
\* len(text) < 200: a candidate's text
MaxCandidateTextLen == 200

(***************************************************************************)
(* ElementAnalyzer.analyze_modal_dialog                                    *)
(***************************************************************************)

\* the result None
None == [kind |-> "None"]

\* a variant of the set of texts that keeps each tag's own string only
TextsOfOwnStrings(doc) ==
    { Strip(doc[i].text) : i \in 1..Len(doc) } \ { "" }

\* the set initial_texts: the non-empty get_text(strip=True) of every tag
TextsOf(doc) ==
    { GetText(doc, i) : i \in 1..Len(doc) } \ { "" }

\* modal_selectors, in the order of the list
ModalSelectors ==
    << [kind |-> "attr_eq",  tag |-> "",    attr |-> "role",  val |-> "dialog"],
       [kind |-> "attr_eq",  tag |-> "",    attr |-> "role",  val |-> "alertdialog"],
       [kind |-> "class",    tag |-> "",    attr |-> "class", val |-> "modal"],
       [kind |-> "class",    tag |-> "",    attr |-> "class", val |-> "popup"],
       [kind |-> "class",    tag |-> "",    attr |-> "class", val |-> "dialog"],
       [kind |-> "attr_sub", tag |-> "",    attr |-> "class", val |-> "modal"],
       [kind |-> "attr_sub", tag |-> "",    attr |-> "class", val |-> "popup"],
       [kind |-> "attr_sub", tag |-> "",    attr |-> "class", val |-> "dialog"],
       [kind |-> "attr_sub", tag |-> "",    attr |-> "class", val |-> "overlay"],
       [kind |-> "attr_sub", tag |-> "div", attr |-> "style", val |-> "fixed"],
       [kind |-> "attr_sub", tag |-> "div", attr |-> "style", val |-> "absolute"] >>

\* whether the element n matches the simple CSS selector sel
Matches(n, sel) ==
    /\ sel.tag = "" \/ n.tag = sel.tag
    /\ sel.attr \in DOMAIN n.attrs
    /\ CASE sel.kind = "attr_eq"  -> n.attrs[sel.attr] = sel.val
         [] sel.kind = "class"    -> \E k \in 1..Len(Classes(n)) : Classes(n)[k] = sel.val
         [] sel.kind = "attr_sub" -> Contains(n.attrs[sel.attr], sel.val)

\* soup.select(sel): the matching elements in document order
Select(doc, sel) ==
    SelectSeq(AllTags(doc), LAMBDA i : Matches(doc[i], sel))

RECURSIVE PotentialModals(_, _)
\* potential_modals: the matches of every selector from the k-th on, appended
\* selector after selector (an element may occur more than once)
PotentialModals(doc, k) ==
    IF k > Len(ModalSelectors) THEN << >>
    ELSE Select(doc, ModalSelectors[k]) \o PotentialModals(doc, k + 1)

\* new_words: the words of el_text that are a substring of no initial text
NewWords(words, initial_texts) ==
    Cardinality({ k \in 1..Len(words) :
                    \A t \in initial_texts : ~Contains(t, words[k]) })

\* the test of the selector loop on one candidate:
\* el_text and len(el_text) > 10 and new_words > max(1, len(words) * 0.25)
IsNewByWords(doc, el, initial_texts) ==
    LET el_text == GetText(doc, el)
        words == Split(el_text)
        new_words == NewWords(words, initial_texts)
    IN  /\ el_text # ""
        /\ Len(el_text) > MinModalTextLen
        /\ new_words > 1
        /\ 4 * new_words > Len(words)

\* the test of the fallback loop on one div, section or aside
IsNewContainer(doc, tag, initial_texts) ==
    LET tag_text == GetText(doc, tag)
    IN  /\ tag_text # ""
        /\ Len(tag_text) > MinFallbackTextLen
        /\ tag_text \notin initial_texts

\* the element a loop that breaks on its first hit ends with: the first of
\* hits, 0 if there is none
FirstOf(hits) == IF Len(hits) = 0 THEN 0 ELSE hits[1]

\* modal_container: the first selector candidate with enough new words, else
\* the first new large div, section or aside, else 0 (None)
ModalContainer(initial, final) ==
    LET initial_texts == TextsOf(initial)
        bySelector == FirstOf(SelectSeq(PotentialModals(final, 1),
                          LAMBDA el : IsNewByWords(final, el, initial_texts)))
        containers == SelectSeq(AllTags(final),
                          LAMBDA i : final[i].tag \in {"div", "section", "aside"})
    IN  IF bySelector # 0 THEN bySelector
        ELSE FirstOf(SelectSeq(containers,
                         LAMBDA i : IsNewContainer(final, i, initial_texts)))

\* modal_title: the text of the first h1, else h2, else h3, else h4 below the
\* container; if that is empty, the first child text of 2 to 199 characters
ModalTitle(doc, c) ==
    LET below == Descendants(doc, c)
        firstTag(name) == FirstOf(SelectSeq(below, LAMBDA i : doc[i].tag = name))
        headings == << "h1", "h2", "h3", "h4" >>
        h == FirstOf(SelectSeq(<< 1, 2, 3, 4 >>, LAMBDA k : firstTag(headings[k]) # 0))
        byHeading == IF h = 0 THEN "" ELSE GetText(doc, firstTag(headings[h]))
        kids == SelectSeq(below, LAMBDA i : doc[i].parent = c)
        childTexts == << Strip(doc[c].text) >> \o
                      [k \in 1..Len(kids) |-> GetText(doc, kids[k])]
        sized == SelectSeq(childTexts, LAMBDA t : 1 < Len(t) /\ Len(t) < MaxTitleLen)
    IN  IF byHeading # "" THEN byHeading
        ELSE IF Len(sized) = 0 THEN "" ELSE sized[1]

\* modal_container.select("button, a[role='button'], a, input[type='button'],
\* input[type='submit']")
IsButtonElement(n) ==
    \/ n.tag \in {"button", "a"}
    \/ n.tag = "input" /\ Attr(n, "type") \in {"button", "submit"}

RECURSIVE ModalButtons(_, _, _)
\* buttons: one entry for each button text not seen before, non-empty and
\* shorter than 80 characters
ModalButtons(doc, elems, seen) ==
    IF Len(elems) = 0 THEN << >>
    ELSE LET btn == doc[Head(elems)]
             btn_text == GetText(doc, Head(elems))
         IN  IF btn_text # "" /\ btn_text \notin seen /\ Len(btn_text) < MaxButtonTextLen
             THEN << [text |-> btn_text, tag |-> btn.tag,
                      type |-> Attr(btn, "type"), href |-> Attr(btn, "href")] >>
                  \o ModalButtons(doc, Tail(elems), seen \cup {btn_text})
             ELSE ModalButtons(doc, Tail(elems), seen)

\* analyze_modal_dialog(initial_html, final_html)
analyze_modal_dialog(initial, final) ==
    LET c == ModalContainer(initial, final)
    IN  IF c = 0 THEN None
        ELSE [kind |-> "modal",
              title |-> ModalTitle(final, c),
              full_text |-> GetText(final, c),
              buttons |-> ModalButtons(final,
                              SelectSeq(Descendants(final, c),
                                        LAMBDA i : IsButtonElement(final[i])),
                              {})]

(***************************************************************************)
(* The pages of the model                                                  *)
(*                                                                         *)
(* A page is html > body > blocks.  A block is a small subtree, given as   *)
(* its elements in document order, the parent index 0 standing for body.   *)
(***************************************************************************)

\* the most blocks a page of the detector's inputs is made of
MaxBlocks == 2

\* <nav><a href="/about">About</a><button>Delete Account</button></nav>
NavBlock ==
    << El("nav", 0, NoAttrs, ""),
       El("a", 1, [href |-> "/about"], "About"),
       El("button", 1, NoAttrs, " Delete Account ") >>

\* <div role="dialog"><h2>Are you sure?</h2><button>Cancel</button>
\* <button>Confirm</button></div>
DialogBlock ==
    << El("div", 0, [role |-> "dialog"], ""),
       El("h2", 1, NoAttrs, "Are you sure?"),
       El("button", 1, NoAttrs, "Cancel"),
       El("button", 1, NoAttrs, "Confirm") >>

\* a modal with text and no control in it
NoticeBlock ==
    << El("div", 0, [class |-> "modal fade"], ""),
       El("p", 1, NoAttrs, "Session expired, reload page") >>

\* an overlay whose text is too short for either path
OverlayBlock ==
    << El("div", 0, [class |-> "page-overlay", style |-> "position: fixed"], "Hi there") >>

\* a banner no modal selector matches, with a link in it
BannerBlock ==
    << El("section", 0, NoAttrs, ""),
       El("p", 1, NoAttrs, "We updated our privacy policy today"),
       El("a", 1, [href |-> "/ok"], "OK") >>

\* a large plain container with no control in it
PromoBlock ==
    << El("aside", 0, NoAttrs, "This promotion ends at midnight tonight only") >>

\* an inline media placeholder
VideoBlock ==
    << El("div", 0, [class |-> "popup"], "Video unavailable in your region"),
       El("button", 1, NoAttrs, "Close") >>

\* a footer that links where the navigation bar does
FooterBlock ==
    << El("footer", 0, NoAttrs, ""),
       El("a", 1, [class |-> "foot", href |-> "/about"], "About") >>

Blocks ==
    << NavBlock, DialogBlock, NoticeBlock, OverlayBlock, BannerBlock, PromoBlock,
       VideoBlock, FooterBlock >>

RECURSIVE Body(_, _)
\* the elements of the blocks, one block after the other, as children of the
\* element at index 2 (body); offset: the elements placed so far
Body(blocks, offset) ==
    IF Len(blocks) = 0 THEN << >>
    ELSE LET b == Head(blocks)
             placed == [k \in 1..Len(b) |->
                          [b[k] EXCEPT !.parent = IF @ = 0 THEN 2 ELSE @ + offset]]
         IN  placed \o Body(Tail(blocks), offset + Len(b))

\* the tree lxml builds: html > body > the blocks
Page(blocks) ==
    << El("html", 0, NoAttrs, ""), El("body", 1, NoAttrs, "") >> \o Body(blocks, 2)

\* the blocks of Blocks whose index is in the set idxs, in the order of Blocks
BlocksAt(idxs) ==
    LET kept == SelectSeq([k \in 1..Len(Blocks) |-> k], LAMBDA k : k \in idxs)
    IN  [k \in 1..Len(kept) |-> Blocks[kept[k]]]

\* the pages of at most MaxBlocks blocks
Pages ==
    { Page(BlocksAt(idxs)) :
        idxs \in { x \in SUBSET (1..Len(Blocks)) : Cardinality(x) <= MaxBlocks } }

(***************************************************************************)
(* ElementAnalyzer.find_potential_interactive_elements                     *)
(***************************************************************************)

\* selectors, in the order of the list; anc: the tag of a required ancestor
\* ("nav a"), tag: the required tag, kind/attr/val: the attribute test
FinderSelectors ==
    << [anc |-> "nav",    tag |-> "a",      kind |-> "any",      attr |-> "",            val |-> ""],
       [anc |-> "nav",    tag |-> "button", kind |-> "any",      attr |-> "",            val |-> ""],
       [anc |-> "nav",    tag |-> "li",     kind |-> "any",      attr |-> "",            val |-> ""],
       [anc |-> "header", tag |-> "a",      kind |-> "any",      attr |-> "",            val |-> ""],
       [anc |-> "header", tag |-> "button", kind |-> "any",      attr |-> "",            val |-> ""],
       [anc |-> "",       tag |-> "",       kind |-> "attr_eq",  attr |-> "role",        val |-> "button"],
       [anc |-> "",       tag |-> "",       kind |-> "attr_eq",  attr |-> "role",        val |-> "menuitem"],
       [anc |-> "",       tag |-> "a",      kind |-> "has_attr", attr |-> "href",        val |-> ""],
       [anc |-> "",       tag |-> "button", kind |-> "any",      attr |-> "",            val |-> ""],
       [anc |-> "",       tag |-> "div",    kind |-> "has_attr", attr |-> "onclick",     val |-> ""],
       [anc |-> "",       tag |-> "div",    kind |-> "has_attr", attr |-> "onmouseover", val |-> ""],
       [anc |-> "",       tag |-> "",       kind |-> "attr_sub", attr |-> "class",       val |-> "menu"],
       [anc |-> "",       tag |-> "",       kind |-> "attr_sub", attr |-> "class",       val |-> "nav"],
       [anc |-> "",       tag |-> "",       kind |-> "attr_sub", attr |-> "class",       val |-> "dropdown"],
       [anc |-> "",       tag |-> "",       kind |-> "attr_sub", attr |-> "class",       val |-> "link"] >>

\* whether element i of doc matches the finder selector sel
FinderMatches(doc, i, sel) ==
    LET n == doc[i]
    IN  /\ sel.tag = "" \/ n.tag = sel.tag
        /\ sel.anc = "" \/ \E a \in 1..Len(doc) : doc[a].tag = sel.anc /\ IsAncestor(doc, a, i)
        /\ CASE sel.kind = "any"      -> TRUE
             [] sel.kind = "has_attr" -> sel.attr \in DOMAIN n.attrs
             [] sel.kind = "attr_eq"  -> sel.attr \in DOMAIN n.attrs /\ n.attrs[sel.attr] = sel.val
             [] sel.kind = "attr_sub" -> sel.attr \in DOMAIN n.attrs
                                         /\ Contains(n.attrs[sel.attr], sel.val)

\* what bs4 compares two Tags by: the name, the attributes and the contents
Signature(doc, i) ==
    LET sub == Subtree(doc, i)
        pos(j) == CHOOSE k \in 1..Len(sub) : sub[k] = j
    IN  [k \in 1..Len(sub) |->
            [doc[sub[k]] EXCEPT !.parent = IF sub[k] = i THEN 0 ELSE pos(@)]]

\* found_elements: the elements some selector matches, equal Tags counted once
FoundElements(doc) ==
    LET hit == { i \in 1..Len(doc) :
                   \E k \in 1..Len(FinderSelectors) : FinderMatches(doc, i, FinderSelectors[k]) }
    IN  { i \in hit : \A j \in hit : j < i => Signature(doc, j) # Signature(doc, i) }

\* ' '.join(text.split())
RECURSIVE JoinWords(_)
JoinWords(words) ==
    IF Len(words) = 0 THEN ""
    ELSE IF Len(words) = 1 THEN words[1]
    ELSE words[1] \o " " \o JoinWords(Tail(words))

\* _get_element_text(element)
ElementText(doc, i) == JoinWords(Split(GetText(doc, i)))

\* the dict appended for one element
Candidate(doc, i) ==
    [text |-> ElementText(doc, i), tag |-> doc[i].tag,
     classes |-> Classes(doc[i]), id |-> Attr(doc[i], "id")]

\* the orders a Python set of the elements of S may be iterated in
Orderings(S) ==
    { f \in [1..Cardinality(S) -> S] : \A a, b \in 1..Cardinality(S) : a # b => f[a] # f[b] }

\* the elements a dict is appended for, in the order of the result: those of
\* found_elements, iterated in the order `order`, with a text of fewer than
\* 200 characters; without any, every a and button with a text
KeptElements(doc, order) ==
    LET kept == SelectSeq(order, LAMBDA i :
                    ElementText(doc, i) # "" /\ Len(ElementText(doc, i)) < MaxCandidateTextLen)
        fallback == SelectSeq(AllTags(doc), LAMBDA i :
                        doc[i].tag \in {"a", "button"} /\ ElementText(doc, i) # "")
    IN  IF Len(kept) > 0 THEN kept ELSE fallback

\* find_potential_interactive_elements(), the set found_elements iterated in
\* the order `order`
find_potential_interactive_elements(doc, order) ==
    LET kept == KeptElements(doc, order)
    IN  [k \in 1..Len(kept) |-> Candidate(doc, kept[k])]

(***************************************************************************)
(* ElementAnalyzer.compare_doms                                            *)
(***************************************************************************)

\* the href recorded for a new element: its own if it is an a, else that of
\* its nearest a ancestor, else ''
RECURSIVE ParentLinkHref(_, _)
ParentLinkHref(doc, i) ==
    LET p == doc[i].parent
    IN  IF p = 0 THEN ""
        ELSE IF doc[p].tag = "a" THEN Attr(doc[p], "href")
        ELSE ParentLinkHref(doc, p)

RECURSIVE NewByText(_, _, _, _)
\* a variant of the first loop that does not look at the initial document
NewByTextUnfiltered(final, tags, initial_texts, seen_texts) ==
    IF Len(tags) = 0 THEN << >>
    ELSE LET i == Head(tags)
             text == GetText(final, i)
         IN  IF text = "" \/ text \in seen_texts
             THEN NewByText(final, Tail(tags), initial_texts, seen_texts)
             ELSE << [text |-> text, tag |-> final[i].tag,
                      href |-> IF final[i].tag = "a" THEN Attr(final[i], "href")
                               ELSE ParentLinkHref(final, i),
                      classes |-> Classes(final[i])] >>
                  \o NewByText(final, Tail(tags), initial_texts, seen_texts \cup {text})

\* the first loop: every a, button, div and span of the final document whose
\* text is not empty, not seen before and not a text of the initial document
NewByText(final, tags, initial_texts, seen_texts) ==
    IF Len(tags) = 0 THEN << >>
    ELSE LET i == Head(tags)
             text == GetText(final, i)
         IN  IF text = "" \/ text \in seen_texts \/ text \in initial_texts
             THEN NewByText(final, Tail(tags), initial_texts, seen_texts)
             ELSE << [text |-> text, tag |-> final[i].tag,
                      href |-> IF final[i].tag = "a" THEN Attr(final[i], "href")
                               ELSE ParentLinkHref(final, i),
                      classes |-> Classes(final[i])] >>
                  \o NewByText(final, Tail(tags), initial_texts, seen_texts \cup {text})

\* {(t.name, tuple(t.get('class', []))) for t in soup.find_all(True)}
TagClassPairs(doc) ==
    { << doc[i].tag, Classes(doc[i]) >> : i \in 1..Len(doc) }

\* the results compare_doms(initial_html, final_html) can return: the new
\* elements by text, or, without any, the new (tag, classes) pairs in any
\* order a set may be listed in, the first 10 of them
compare_doms(initial, final) ==
    LET byText == NewByText(final,
                      SelectSeq(AllTags(final),
                                LAMBDA i : final[i].tag \in {"a", "button", "div", "span"}),
                      TextsOf(initial), {})
        new_struct == TagClassPairs(final) \ TagClassPairs(initial)
    IN  IF Len(byText) > 0 THEN { byText }
        ELSE { [k \in 1..(IF Len(o) < 10 THEN Len(o) ELSE 10) |->
                   [text |-> "", tag |-> o[k][1], href |-> "", classes |-> o[k][2]]] :
               o \in Orderings(new_struct) }

(***************************************************************************)
(* The site under test and the external collaborators                      *)
(***************************************************************************)

Min(a, b) == IF a < b THEN a ELSE b

\* item.url, and the two kinds of URL a click can lead to
BaseUrl == "https://a.com/x"
SameDomainUrl == "https://a.com/y"
CrossDomainUrl == "https://b.com/y"

\* the position of the first character of s from i on that is in chars,
\* Len(s) + 1 if none
RECURSIVE FirstIn(_, _, _)
FirstIn(s, i, chars) ==
    IF i > Len(s) THEN i
    ELSE IF SubSeq(s, i, i) \in chars THEN i
    ELSE FirstIn(s, i + 1, chars)

\* urlparse(url).netloc: what follows the first "//" up to the next /, ? or #,
\* and '' for a URL without "//" after its scheme
Netloc(url) ==
    LET starts == { i \in 1..(Len(url) - 1) :
                      /\ SubSeq(url, i, i + 1) = "//"
                      /\ i = 1 \/ SubSeq(url, i - 1, i - 1) = ":" }
        from == (CHOOSE i \in starts : \A j \in starts : i <= j) + 2
    IN  IF starts = {} THEN ""
        ELSE SubSeq(url, from, FirstIn(url, from, {"/", "?", "#"}) - 1)

\* <div class="dropdown"><a href="/about/team">Team</a></div>
DropdownBlock ==
    << El("div", 0, [class |-> "dropdown"], ""),
       El("a", 1, [href |-> "/about/team"], "Team") >>

\* a tooltip with no text: new markup only
TooltipBlock ==
    << El("span", 0, [class |-> "tip"], "") >>

\* doc with one more block at the end of body
WithBlock(doc, block) == doc \o Body(<< block >>, Len(doc))

\* the most blocks the page at the base URL is made of
MaxBaseBlocks == 2

\* the pages the base URL may serve: the first blocks of this list
BaseBlocks == << NavBlock, BannerBlock, OverlayBlock >>

\* a paragraph of page text: <p>Are you new here?</p>
GreetingBlock ==
    << El("p", 0, NoAttrs, "Are you new here?") >>

\* the navigation bar under a greeting
GreetingPage == Page(<< NavBlock, GreetingBlock >>)

BasePages ==
    { Page(SubSeq(BaseBlocks, 1, n)) : n \in 0..Min(MaxBaseBlocks, Len(BaseBlocks)) }
        \cup { GreetingPage }

\* the page a navigating click ends on
OtherPage == Page(<< PromoBlock >>)

\* what a click may do to the page showing doc at url: nothing, insert a
\* block, show another document, under the same URL or under another one
ClickEffects(url, doc) ==
    { [url |-> u, doc |-> d] :
        u \in {url, SameDomainUrl, CrossDomainUrl},
        d \in {doc, WithBlock(doc, DialogBlock), WithBlock(doc, NoticeBlock), OtherPage} }

\* what a hover may do to the page showing doc, base being the document the
\* site serves: nothing, or show one of its hidden blocks in place of the one
\* shown before, or none
HoverEffects(base, doc) ==
    { doc, base, WithBlock(base, DropdownBlock), WithBlock(base, TooltipBlock) }

\* what a locator resolves to: nothing, or an element with a tag and an href
NotFound == [tag |-> "", href |-> ""]
Targets ==
    { NotFound,
      [tag |-> "button", href |-> ""],
      [tag |-> "a", href |-> "/about"],
      [tag |-> "a", href |-> SameDomainUrl],
      [tag |-> "a", href |-> CrossDomainUrl] }

\* what LLMService() and generate_gherkin_scenario do: the constructor raises,
\* or the call returns '' (no prompt, an API error) or a text
LLMOutcomes ==
    { [raises |-> TRUE, text |-> ""],
      [raises |-> FALSE, text |-> ""],
      [raises |-> FALSE, text |-> "Scenario: generated"],
      [raises |-> FALSE, text |-> "Sorry, I cannot help"] }

(***************************************************************************)
(* BrowserManager.click_and_get_changes, its decisions                     *)
(***************************************************************************)

\* the dict click_and_get_changes and hover_and_get_changes return; a key the
\* code leaves out (skipped, navigated) reads as false in changes.get(key)
Changes(initial, final, initial_url, final_url, skipped, navigated) ==
    [initial |-> initial, final |-> final, initial_url |-> initial_url,
     final_url |-> final_url, skipped |-> skipped, navigated |-> navigated]

NoChanges == Changes(<< >>, << >>, "", "", FALSE, FALSE)

\* if href: parsed.netloc and parsed.netloc != urlparse(initial_url).netloc
IsExternal(href, initial_url) ==
    /\ href # ""
    /\ Netloc(href) # ""
    /\ Netloc(href) # Netloc(initial_url)

\* the locators of the nested try statements of click_and_get_changes and of
\* hover_and_get_changes, in the order they are tried; both methods are
\* given the candidate's text only
ClickLocators == << "exact_text", "partial_text", "role_button", "role_link" >>
HoverLocators == << "exact_text", "partial_text", "role_link", "role_button" >>

\* one locator strategy of the click chain (1: exact text, 2: partial text,
\* 3: role button, 4: role link) on the element it resolved to: "fail" (an
\* exception, the next strategy is tried), "external" (return skipped) or
\* "clicked".  Strategy 1 reads the href of an a only, strategy 3 reads none.
ClickStrategyOutcome(k, target, click_ok, initial_url) ==
    LET href == CASE k = 1 -> IF target.tag = "a" THEN target.href ELSE ""
                  [] k = 3 -> ""
                  [] OTHER -> target.href
    IN  IF target = NotFound THEN "fail"
        ELSE IF IsExternal(href, initial_url) THEN "external"
        ELSE IF click_ok THEN "clicked"
        ELSE "fail"

\* what the call returns once the click is done and settled: navigated when
\* the page's URL is no longer the initial one, else the final snapshot, or
\* the initial one again when the page cannot be read
ClickSettled(initial_content, initial_url, current_url, content, read_ok) ==
    IF current_url # initial_url
    THEN Changes(initial_content, IF read_ok THEN content ELSE initial_content,
                 initial_url, current_url, FALSE, TRUE)
    ELSE IF read_ok
    THEN Changes(initial_content, content, initial_url, current_url, FALSE, FALSE)
    ELSE Changes(initial_content, initial_content, initial_url, initial_url, FALSE, FALSE)

(***************************************************************************)
(* generate_tests, its decisions                                           *)
(***************************************************************************)

\* a variant of the loop's decision without the check of navigated
ClickVerdictWithoutNavigated(ch) ==
    IF ch.skipped THEN "skipped" ELSE "analyze"

\* what the click loop does with changes: continue on skipped, continue on
\* navigated, else analyse the two snapshots
ClickVerdict(ch) ==
    IF ch.skipped THEN "skipped"
    ELSE IF ch.navigated THEN "navigated"
    ELSE "analyze"

\* a variant of the guard that looks at modal_details only
PopupAcceptedAnyFinding(details) == details # None

\* if modal_details and modal_details['buttons']
PopupAccepted(details) ==
    /\ details # None
    /\ details.buttons # << >>

\* if scenario: the text is appended when it is not empty
ScenarioAccepted(text) == text # ""

\* the interaction_data handed to the writer, kept here with the text the
\* writer returned for it
Scenario(type, element_data, details, newly, text) ==
    [url |-> BaseUrl, type |-> type, element |-> element_data,
     modal |-> details, revealed_elements |-> newly, text |-> text]

(***************************************************************************)
(* The state of one generate_tests call                                    *)
(*                                                                         *)
(* A local of the loop body (changes, modal_details, newly_appeared, the   *)
(* locals of the probe) is cleared when the next iteration starts: the     *)
(* code assigns it again before it reads it.                               *)
(***************************************************************************)

VARIABLES
    pc,                   \* where generate_tests stands
    bm,                   \* the BrowserManager: playwright, browser, page, cookie_dismissed
    base_page,            \* the document the site serves at the base URL
    page_url,             \* page.url
    page_doc,             \* the live document of the page
    elem_order,           \* the order this process iterates found_elements in
    interactive_elements,
    clickable_elements,
    idx,                  \* the loop index, from 1
    strategy,             \* the locator strategy being tried, 1..4
    local,                \* initial_content and initial_url of the running probe
    changes,              \* the dict the probe returned
    modal_details,
    newly_appeared,
    gherkin_scenarios,
    popup_found,
    hover_found,
    raised,               \* the outer except clause raised HTTPException(500)
    outcome,              \* "none", then "ok", "empty" or "error"
    close_result,         \* history: "none", then what browser.close() did
    init_failure,         \* history: "none", or what failed before the loops
    renav_failed,         \* history: a later go_to(item.url) raised
    cand_failed,          \* history: a probe step failed for the candidate at hand
    fresh,                \* history: nothing has touched the page since the
                          \* last successful navigation to the base URL
    attempt,              \* get_page_content: the loop variable, from 0
    reads,                \* history: how each read attempt of the call ended
    read_result,          \* what get_page_content returned or raised
    banner_calls,         \* history: the calls of _handle_cookie_banner so far
    navs                  \* history: how each go_to of a session on its own ended

vars ==
    << pc, bm, base_page, page_url, page_doc, elem_order, interactive_elements,
       clickable_elements, idx, strategy, local, changes, modal_details,
       newly_appeared, gherkin_scenarios, popup_found, hover_found, raised, outcome,
       close_result, init_failure, renav_failed, cand_failed, fresh, attempt, reads,
       read_result, banner_calls, navs >>

\* the variables of the page and of the browser
pageVars == << bm, page_url, page_doc, fresh, banner_calls >>
\* the results collected so far
resultVars == << gherkin_scenarios, popup_found, hover_found >>
\* the variables only the start and the end of the call write
endVars == << raised, outcome, close_result, init_failure >>
\* the locals of the loop body
bodyVars == << strategy, local, changes, modal_details, newly_appeared >>
\* the candidate lists
listVars == << base_page, elem_order, interactive_elements, clickable_elements >>

\* the variables of a get_page_content call, and the history of the go_to
\* calls of a session on its own
readVars == << attempt, reads, read_result, navs >>

\* get_page_content has neither returned nor raised
NoRead == [kind |-> "none"]

NoLocal == [initial_content |-> << >>, initial_url |-> ""]

\* the locals of the loop body, not assigned yet
ClearBody ==
    /\ strategy' = 1
    /\ local' = NoLocal
    /\ changes' = NoChanges
    /\ modal_details' = None
    /\ newly_appeared' = << >>

\* BrowserManager() and the locals of generate_tests before the try
InitCall ==
    /\ bm = [playwright |-> FALSE, browser |-> FALSE, page |-> FALSE, cookie_dismissed |-> FALSE]
    /\ banner_calls = 0
    /\ page_url = "about:blank"
    /\ page_doc = << >>
    /\ elem_order = << >>
    /\ interactive_elements = << >>
    /\ clickable_elements = << >>
    /\ idx = 1
    /\ strategy = 1
    /\ local = NoLocal
    /\ modal_details = None
    /\ newly_appeared = << >>
    /\ gherkin_scenarios = << >>
    /\ popup_found = FALSE
    /\ hover_found = FALSE
    /\ raised = FALSE
    /\ outcome = "none"
    /\ close_result = "none"
    /\ init_failure = "none"
    /\ renav_failed = FALSE
    /\ cand_failed = FALSE
    /\ fresh = FALSE
    /\ attempt = 0
    /\ reads = << >>
    /\ read_result = NoRead
    /\ navs = << >>

Init ==
    /\ pc = "start"
    /\ base_page \in BasePages
    /\ changes = NoChanges
    /\ InitCall

(***************************************************************************)
(* BrowserManager.start, go_to, close                                      *)
(***************************************************************************)

\* start(): playwright, then the browser, then the page; any of the three may
\* raise and leaves what was set before it
StartResults == { "ok", "no_playwright", "no_browser", "no_page" }

Started(r) ==
    [bm EXCEPT !.playwright = (r # "no_playwright"),
               !.browser = (r \in {"ok", "no_page"}),
               !.page = (r = "ok")]

\* a variant of the test before the banner handling that always passes
BannerPendingAlways(b) == TRUE

\* if not self.cookie_dismissed (an attribute go_to creates as False)
BannerPending(b) == ~b.cookie_dismissed

\* go_to(url) once page.goto and the wait after it are through: the page shows
\* the base document; _handle_cookie_banner (which raises nothing) is called
\* if the banner is pending, and cookie_dismissed is set
GoToLoaded ==
    /\ bm.page
    /\ banner_calls' = IF BannerPending(bm) THEN banner_calls + 1 ELSE banner_calls
    /\ bm' = [bm EXCEPT !.cookie_dismissed = TRUE]
    /\ page_url' = BaseUrl
    /\ page_doc' = base_page
    /\ fresh' = TRUE

\* go_to(url) returning
GoToDone == GoToLoaded

\* go_to(url) raising before the page is loaded: no page, or page.goto or the
\* wait after it failed
GoToLoadFailed == UNCHANGED pageVars

\* go_to(url) raising in its last wait, the page loaded and the banner handled
GoToLateFailed == GoToLoaded

\* go_to(url) raising
GoToRaised ==
    \/ GoToLoadFailed
    \/ GoToLateFailed

\* close(): browser.close() if a browser was launched, then playwright.stop()
\* if playwright was started; either may raise
CloseResults ==
    { "ok" } \cup (IF bm.browser \/ bm.playwright THEN { "raised" } ELSE {})

(***************************************************************************)
(* generate_tests: the start of the call                                   *)
(***************************************************************************)

\* await browser.start()
Start ==
    /\ pc = "start"
    /\ \E r \in StartResults :
        /\ bm' = Started(r)
        /\ pc' = IF r = "ok" THEN "goto" ELSE "except"
        /\ init_failure' = IF r = "ok" THEN "none" ELSE "start"
    /\ UNCHANGED << page_url, page_doc, fresh, banner_calls, listVars, idx, bodyVars,
                    resultVars, raised, outcome, close_result, renav_failed, cand_failed >>
    /\ UNCHANGED readVars

\* await browser.go_to(item.url)
InitialGoTo ==
    /\ pc = "goto"
    /\ \/ GoToDone /\ pc' = "content" /\ UNCHANGED init_failure
       \/ GoToRaised /\ pc' = "except" /\ init_failure' = "goto"
    /\ UNCHANGED << listVars, idx, bodyVars, resultVars, raised, outcome, close_result,
                    renav_failed, cand_failed >>
    /\ UNCHANGED readVars

\* the candidates of a document, found_elements iterated in the order `order`
CandidatesOf(doc, order) == find_potential_interactive_elements(doc, order)

\* [el for el in interactive_elements if el['tag'] in ['a', 'button']]
Clickable(elements) == SelectSeq(elements, LAMBDA el : el.tag \in {"a", "button"})

\* initial_content = await browser.get_page_content(), the candidates, the
\* clickable ones
InitialContent ==
    /\ pc = "content"
    /\ \/ /\ \E o \in Orderings(FoundElements(page_doc)) :
                /\ elem_order' = o
                /\ interactive_elements' = CandidatesOf(page_doc, o)
                /\ clickable_elements' = Clickable(CandidatesOf(page_doc, o))
          /\ idx' = 1
          /\ pc' = "click_loop"
          /\ UNCHANGED init_failure
       \/ /\ pc' = "except"
          /\ init_failure' = "content"
          /\ UNCHANGED << elem_order, interactive_elements, clickable_elements, idx >>
    /\ UNCHANGED << base_page, pageVars, bodyVars, resultVars, raised, outcome,
                    close_result, renav_failed, cand_failed >>
    /\ UNCHANGED readVars

(***************************************************************************)
(* generate_tests, phase 1: the click loop                                 *)
(***************************************************************************)

\* the candidates the loop runs over: clickable_elements[:20]
ClickList == SubSeq(clickable_elements, 1, Min(Len(clickable_elements), MaxClickProbes))

\* continue: the next candidate of the click loop
NextClickCandidate ==
    /\ idx' = idx + 1
    /\ pc' = "click_loop"

\* a variant of the break that goes on with the next candidate
PopupBreakContinues ==
    /\ idx' = idx + 1
    /\ pc' = "click_loop"

\* break: a popup scenario was appended, the click loop ends
PopupBreak ==
    /\ pc' = "hover_reset"
    /\ UNCHANGED idx

\* a variant in which the candidate is probed although go_to raised
ClickNavFailedProbes ==
    /\ pc' = "click_initial"
    /\ UNCHANGED idx

\* a variant in which the loop body's except clause raises again
ClickProbeFailedRaises ==
    /\ pc' = "except"
    /\ UNCHANGED idx

\* except Exception around go_to: print, continue
ClickNavFailed == NextClickCandidate

\* except Exception around the probe and what follows it: print, continue
ClickProbeFailed == NextClickCandidate

\* the loop is exhausted
ClickLoopEnd ==
    /\ pc = "click_loop"
    /\ idx > Len(ClickList)
    /\ pc' = "hover_reset"
    /\ cand_failed' = FALSE
    /\ ClearBody
    /\ UNCHANGED << listVars, idx, pageVars, resultVars, endVars, renav_failed >>
    /\ UNCHANGED readVars

\* await browser.go_to(item.url) for a candidate; on an exception, continue
ClickGoTo ==
    /\ pc = "click_loop"
    /\ idx <= Len(ClickList)
    /\ \/ /\ GoToDone
          /\ pc' = "click_initial"
          /\ cand_failed' = FALSE
          /\ UNCHANGED << idx, renav_failed >>
       \/ /\ GoToRaised
          /\ ClickNavFailed
          /\ cand_failed' = TRUE
          /\ renav_failed' = TRUE
    /\ ClearBody
    /\ UNCHANGED << listVars, resultVars, endVars >>
    /\ UNCHANGED readVars

\* click_and_get_changes: initial_content and initial_url; an unreadable page
\* raises out of the call, into the loop's except clause
ClickInitial ==
    /\ pc = "click_initial"
    /\ \/ /\ local' = [initial_content |-> page_doc, initial_url |-> page_url]
          /\ pc' = "click_try"
          /\ UNCHANGED << idx, cand_failed >>
       \/ /\ ClickProbeFailed
          /\ cand_failed' = TRUE
          /\ UNCHANGED local
    /\ UNCHANGED << listVars, pageVars, strategy, changes, modal_details, newly_appeared,
                    resultVars, endVars, renav_failed >>
    /\ UNCHANGED readVars

\* click_and_get_changes: one locator strategy
ClickTry ==
    /\ pc = "click_try"
    /\ \E target \in Targets, click_ok \in BOOLEAN :
        LET res == ClickStrategyOutcome(strategy, target, click_ok, local.initial_url)
        IN  \/ /\ res = "clicked"
               /\ \E e \in ClickEffects(page_url, page_doc) :
                    /\ page_url' = e.url
                    /\ page_doc' = e.doc
               /\ fresh' = FALSE
               /\ pc' = "click_settle"
               /\ UNCHANGED << bm, banner_calls, strategy, changes, cand_failed >>
            \/ /\ res = "external"
               /\ changes' = Changes(local.initial_content, local.initial_content,
                                     local.initial_url, local.initial_url, TRUE, FALSE)
               /\ pc' = "click_result"
               /\ UNCHANGED << pageVars, strategy, cand_failed >>
            \/ /\ res = "fail"
               /\ strategy < 4
               /\ strategy' = strategy + 1
               /\ pc' = "click_try"
               /\ UNCHANGED << pageVars, changes, cand_failed >>
            \/ /\ res = "fail"
               /\ strategy = 4
               /\ changes' = Changes(local.initial_content, local.initial_content,
                                     local.initial_url, local.initial_url, FALSE, FALSE)
               /\ cand_failed' = TRUE
               /\ pc' = "click_result"
               /\ UNCHANGED << pageVars, strategy >>
    /\ UNCHANGED << listVars, idx, local, modal_details, newly_appeared, resultVars,
                    endVars, renav_failed >>
    /\ UNCHANGED readVars

\* click_and_get_changes after the click: the settle delay, page.url and the
\* final snapshot
ClickSettle ==
    /\ pc = "click_settle"
    /\ \E read_ok \in BOOLEAN :
        /\ changes' = ClickSettled(local.initial_content, local.initial_url,
                                   page_url, page_doc, read_ok)
        /\ cand_failed' = ~read_ok
    /\ pc' = "click_result"
    /\ UNCHANGED << listVars, idx, pageVars, strategy, local, modal_details,
                    newly_appeared, resultVars, endVars, renav_failed >>
    /\ UNCHANGED readVars

\* the loop body after click_and_get_changes returned, up to the writer
ClickResult ==
    /\ pc = "click_result"
    /\ \/ /\ ClickVerdict(changes) \in {"skipped", "navigated"}
          /\ NextClickCandidate
          /\ UNCHANGED << modal_details, cand_failed >>
       \/ /\ ClickVerdict(changes) = "analyze"
          /\ modal_details' = analyze_modal_dialog(changes.initial, changes.final)
          /\ IF PopupAccepted(modal_details')
             THEN pc' = "click_write" /\ UNCHANGED idx
             ELSE NextClickCandidate
          /\ UNCHANGED cand_failed
       \/ \* analyze_modal_dialog raises: the loop's except clause, continue
          /\ ClickVerdict(changes) = "analyze"
          /\ ClickProbeFailed
          /\ cand_failed' = TRUE
          /\ UNCHANGED modal_details
    /\ UNCHANGED << listVars, pageVars, strategy, local, changes, newly_appeared,
                    resultVars, endVars, renav_failed >>
    /\ UNCHANGED readVars

\* LLMService() and generate_gherkin_scenario(interaction_data) for a popup
ClickWrite ==
    /\ pc = "click_write"
    /\ \E llm \in LLMOutcomes :
        IF llm.raises
        THEN /\ ClickProbeFailed
             /\ cand_failed' = TRUE
             /\ UNCHANGED << gherkin_scenarios, popup_found >>
        ELSE IF ScenarioAccepted(llm.text)
        THEN /\ gherkin_scenarios' = Append(gherkin_scenarios,
                    Scenario("popup", ClickList[idx], modal_details, << >>, llm.text))
             /\ popup_found' = TRUE
             /\ PopupBreak
             /\ UNCHANGED cand_failed
        ELSE /\ NextClickCandidate
             /\ UNCHANGED << gherkin_scenarios, popup_found, cand_failed >>
    /\ UNCHANGED << listVars, pageVars, bodyVars, hover_found, endVars, renav_failed >>
    /\ UNCHANGED readVars

(***************************************************************************)
(* generate_tests, phase 2: the hover loop                                 *)
(***************************************************************************)

\* the candidates the loop runs over: interactive_elements[:30]
HoverList == SubSeq(interactive_elements, 1, Min(Len(interactive_elements), MaxHoverProbes))

NextHoverCandidate ==
    /\ idx' = idx + 1
    /\ pc' = "hover_loop"

\* except Exception around the probe and what follows it: print, continue
HoverProbeFailed == NextHoverCandidate

\* break: a hover scenario was appended, the hover loop ends
HoverBreak ==
    /\ pc' = "finally"
    /\ UNCHANGED idx

\* a variant of the page reset in which a failed go_to is not caught
HoverResetFailureFatal ==
    /\ pc = "hover_reset"
    /\ \/ /\ GoToDone
          /\ \/ interactive_elements' = CandidatesOf(page_doc', elem_order)
             \/ interactive_elements' = << >>
          /\ UNCHANGED renav_failed
       \/ /\ GoToRaised
          /\ interactive_elements' = << >>
          /\ renav_failed' = TRUE
    /\ idx' = 1
    /\ cand_failed' = FALSE
    /\ pc' = IF renav_failed' /\ ~renav_failed THEN "except" ELSE "hover_loop"
    /\ ClearBody
    /\ UNCHANGED << base_page, elem_order, clickable_elements, resultVars, endVars >>
    /\ UNCHANGED readVars

\* the page reset before the loop: go_to, get_page_content and the finder in
\* one try; on an exception interactive_elements = []
HoverReset ==
    /\ pc = "hover_reset"
    /\ \/ /\ GoToDone
          /\ \/ interactive_elements' = CandidatesOf(page_doc', elem_order)
             \/ interactive_elements' = << >>
          /\ UNCHANGED renav_failed
       \/ /\ GoToRaised
          /\ interactive_elements' = << >>
          /\ renav_failed' = TRUE
    /\ idx' = 1
    /\ cand_failed' = FALSE
    /\ pc' = "hover_loop"
    /\ ClearBody
    /\ UNCHANGED << base_page, elem_order, clickable_elements, resultVars, endVars >>
    /\ UNCHANGED readVars

\* the loop is exhausted
HoverLoopEnd ==
    /\ pc = "hover_loop"
    /\ idx > Len(HoverList)
    /\ pc' = "finally"
    /\ cand_failed' = FALSE
    /\ ClearBody
    /\ UNCHANGED << listVars, idx, pageVars, resultVars, endVars, renav_failed >>
    /\ UNCHANGED readVars

\* hover_and_get_changes: initial_content; an unreadable page raises out of
\* the call, into the loop's except clause
HoverInitial ==
    /\ pc = "hover_loop"
    /\ idx <= Len(HoverList)
    /\ \/ /\ local' = [initial_content |-> page_doc, initial_url |-> page_url]
          /\ pc' = "hover_try"
          /\ cand_failed' = FALSE
          /\ UNCHANGED idx
       \/ /\ HoverProbeFailed
          /\ cand_failed' = TRUE
          /\ local' = NoLocal
    /\ strategy' = 1
    /\ changes' = NoChanges
    /\ newly_appeared' = << >>
    /\ UNCHANGED << listVars, pageVars, modal_details, resultVars, endVars, renav_failed >>
    /\ UNCHANGED readVars

\* hover_and_get_changes: one locator strategy (1: exact text, 2: partial
\* text, 3: role link, 4: role button); the first that hovers ends the chain
HoverTry ==
    /\ pc = "hover_try"
    /\ \/ /\ \E d \in HoverEffects(base_page, page_doc) : page_doc' = d
          /\ fresh' = FALSE
          /\ pc' = "hover_final"
          /\ UNCHANGED << bm, banner_calls, page_url, strategy, changes, cand_failed >>
       \/ /\ strategy < 4
          /\ strategy' = strategy + 1
          /\ pc' = "hover_try"
          /\ UNCHANGED << pageVars, changes, cand_failed >>
       \/ /\ strategy = 4
          /\ changes' = Changes(local.initial_content, local.initial_content, "", "",
                                FALSE, FALSE)
          /\ cand_failed' = TRUE
          /\ pc' = "hover_result"
          /\ UNCHANGED << pageVars, strategy >>
    /\ UNCHANGED << listVars, idx, local, modal_details, newly_appeared, resultVars,
                    endVars, renav_failed >>
    /\ UNCHANGED readVars

\* hover_and_get_changes: final_content; an unreadable page raises out of the
\* call, into the loop's except clause
HoverFinal ==
    /\ pc = "hover_final"
    /\ \/ /\ changes' = Changes(local.initial_content, page_doc, "", "", FALSE, FALSE)
          /\ pc' = "hover_result"
          /\ UNCHANGED << idx, cand_failed >>
       \/ /\ HoverProbeFailed
          /\ cand_failed' = TRUE
          /\ UNCHANGED changes
    /\ UNCHANGED << listVars, pageVars, strategy, local, modal_details, newly_appeared,
                    resultVars, endVars, renav_failed >>
    /\ UNCHANGED readVars

\* the loop body after hover_and_get_changes returned, up to the writer:
\* compare_doms, and compare_doms again when it returned nothing
HoverResult ==
    /\ pc = "hover_result"
    /\ \/ /\ \E found \in compare_doms(changes.initial, changes.final) :
                newly_appeared' = found
          /\ IF newly_appeared' # << >>
             THEN pc' = "hover_write" /\ UNCHANGED idx
             ELSE NextHoverCandidate
          /\ UNCHANGED cand_failed
       \/ \* compare_doms raises: the loop's except clause, continue
          /\ HoverProbeFailed
          /\ cand_failed' = TRUE
          /\ UNCHANGED newly_appeared
    /\ UNCHANGED << listVars, pageVars, strategy, local, changes, modal_details,
                    resultVars, endVars, renav_failed >>
    /\ UNCHANGED readVars

\* LLMService() and generate_gherkin_scenario(interaction_data) for a hover
HoverWrite ==
    /\ pc = "hover_write"
    /\ \E llm \in LLMOutcomes :
        IF llm.raises
        THEN /\ HoverProbeFailed
             /\ cand_failed' = TRUE
             /\ UNCHANGED << gherkin_scenarios, hover_found >>
        ELSE IF ScenarioAccepted(llm.text)
        THEN /\ gherkin_scenarios' = Append(gherkin_scenarios,
                    Scenario("hover", HoverList[idx], None, newly_appeared, llm.text))
             /\ hover_found' = TRUE
             /\ HoverBreak
             /\ UNCHANGED cand_failed
        ELSE /\ NextHoverCandidate
             /\ UNCHANGED << gherkin_scenarios, hover_found, cand_failed >>
    /\ UNCHANGED << listVars, pageVars, bodyVars, popup_found, endVars, renav_failed >>
    /\ UNCHANGED readVars

(***************************************************************************)
(* generate_tests: the end of the call                                     *)
(***************************************************************************)

\* a variant of the outer except clause that raises nothing
ExceptClauseSilent ==
    /\ pc = "except"
    /\ raised' = FALSE
    /\ pc' = "finally"
    /\ UNCHANGED << listVars, idx, pageVars, bodyVars, resultVars, outcome, close_result,
                    init_failure, renav_failed, cand_failed >>
    /\ UNCHANGED readVars

\* except Exception: raise HTTPException(status_code=500)
ExceptClause ==
    /\ pc = "except"
    /\ raised' = TRUE
    /\ pc' = "finally"
    /\ UNCHANGED << listVars, idx, pageVars, bodyVars, resultVars, outcome, close_result,
                    init_failure, renav_failed, cand_failed >>
    /\ UNCHANGED readVars

\* a variant of the finally clause in which a failure of close() propagates
AfterFinallyCloseRaises(r) == IF raised \/ r = "raised" THEN "done" ELSE "result"

\* what leaves the finally clause, close() having returned or raised r: the
\* HTTPException if one was raised, else the code after the try statement
AfterFinally(r) == IF raised THEN "done" ELSE "result"

\* finally: try: await browser.close() / except Exception: pass
FinallyClause ==
    /\ pc = "finally"
    /\ \E r \in CloseResults :
        /\ close_result' = r
        /\ pc' = AfterFinally(r)
        /\ outcome' = IF pc' = "done" THEN "error" ELSE outcome
    /\ UNCHANGED << listVars, idx, pageVars, bodyVars, resultVars, raised, init_failure,
                    renav_failed, cand_failed >>
    /\ UNCHANGED readVars

\* a variant of the result handling that answers a call without scenarios
\* with an error
ResultHandlingEmptyIsError ==
    /\ pc = "result"
    /\ \/ /\ gherkin_scenarios = << >>
          /\ outcome' = "error"
       \/ /\ gherkin_scenarios # << >>
          /\ outcome' \in {"ok", "error"}
    /\ pc' = "done"
    /\ UNCHANGED << listVars, idx, pageVars, bodyVars, resultVars, raised, close_result,
                    init_failure, renav_failed, cand_failed >>
    /\ UNCHANGED readVars

\* the result: the message without scenarios, else the saved feature file, or
\* HTTPException(500) when it cannot be saved
ResultHandling ==
    /\ pc = "result"
    /\ \/ /\ gherkin_scenarios = << >>
          /\ outcome' = "empty"
       \/ /\ gherkin_scenarios # << >>
          /\ outcome' \in {"ok", "error"}
    /\ pc' = "done"
    /\ UNCHANGED << listVars, idx, pageVars, bodyVars, resultVars, raised, close_result,
                    init_failure, renav_failed, cand_failed >>
    /\ UNCHANGED readVars

Next ==
    \/ Start
    \/ InitialGoTo
    \/ InitialContent
    \/ ClickLoopEnd
    \/ ClickGoTo
    \/ ClickInitial
    \/ ClickTry
    \/ ClickSettle
    \/ ClickResult
    \/ ClickWrite
    \/ HoverReset
    \/ HoverLoopEnd
    \/ HoverInitial
    \/ HoverTry
    \/ HoverFinal
    \/ HoverResult
    \/ HoverWrite
    \/ ExceptClause
    \/ FinallyClause
    \/ ResultHandling

Spec == Init /\ [][Next]_vars

(***************************************************************************)
(* The modal detector on its own: analyze_modal_dialog applied to every    *)
(* pair of pages of at most MaxBlocks blocks                               *)
(***************************************************************************)

InitModal ==
    /\ pc = "analyze"
    /\ base_page = Page(<< >>)
    /\ \E initial \in Pages, final \in Pages :
         changes = Changes(initial, final, BaseUrl, BaseUrl, FALSE, FALSE)
    /\ InitCall

\* modal_details = ElementAnalyzer.analyze_modal_dialog(initial, final)
AnalyzeModal ==
    /\ pc = "analyze"
    /\ modal_details' = analyze_modal_dialog(changes.initial, changes.final)
    /\ pc' = "analyzed"
    /\ UNCHANGED << listVars, idx, pageVars, strategy, local, changes, newly_appeared,
                    resultVars, endVars, renav_failed, cand_failed >>
    /\ UNCHANGED readVars

NextModal == AnalyzeModal

SpecModal == InitModal /\ [][NextModal]_vars

(***************************************************************************)
(* The snapshot differ on its own: compare_doms applied to every pair of   *)
(* pages of at most MaxBlocks blocks                                       *)
(***************************************************************************)

InitDiff ==
    /\ pc = "compare"
    /\ base_page = Page(<< >>)
    /\ \E initial \in Pages, final \in Pages :
         changes = Changes(initial, final, "", "", FALSE, FALSE)
    /\ InitCall

\* newly_appeared = ElementAnalyzer.compare_doms(initial, final)
CompareDoms ==
    /\ pc = "compare"
    /\ \E found \in compare_doms(changes.initial, changes.final) :
         newly_appeared' = found
    /\ pc' = "compared"
    /\ UNCHANGED << listVars, idx, pageVars, strategy, local, changes, modal_details,
                    resultVars, endVars, renav_failed, cand_failed >>
    /\ UNCHANGED readVars

NextDiff == CompareDoms

SpecDiff == InitDiff /\ [][NextDiff]_vars

(***************************************************************************)
(* The candidate finder on its own: find_potential_interactive_elements    *)
(* applied to every page of at most MaxBlocks blocks                       *)
(***************************************************************************)

InitFinder ==
    /\ pc = "find"
    /\ base_page \in Pages
    /\ changes = NoChanges
    /\ InitCall

\* interactive_elements = ElementAnalyzer(html).find_potential_interactive_elements()
\* and the clickable ones among them
FindElements ==
    /\ pc = "find"
    /\ \E o \in Orderings(FoundElements(base_page)) :
         /\ elem_order' = o
         /\ interactive_elements' = CandidatesOf(base_page, o)
         /\ clickable_elements' = Clickable(CandidatesOf(base_page, o))
    /\ pc' = "found"
    /\ UNCHANGED << base_page, idx, pageVars, bodyVars, resultVars, endVars,
                    renav_failed, cand_failed >>
    /\ UNCHANGED readVars

NextFinder == FindElements

SpecFinder == InitFinder /\ [][NextFinder]_vars

(***************************************************************************)
(* The hover phase on its own, on a page with many links: generate_tests   *)
(* from the reset before the hover loop, the click loop having found no    *)
(* popup                                                                   *)
(***************************************************************************)

\* MAX_HOVERABLE_ELEMENTS
MAX_HOVERABLE_ELEMENTS == 20

\* the most links of the navigation bar of such a page
MaxLinks == 22

\* the numbers of links tried: none, one, and more than the loop takes
LinkCounts == { 0, 1, MaxLinks }

\* <nav><a href="/p1">Link 1</a> ... <a href="/pn">Link n</a></nav>
LinksBlock(n) ==
    << El("nav", 0, NoAttrs, "") >> \o
    [k \in 1..n |-> El("a", 1, [href |-> "/p" \o ToString(k)], "Link " \o ToString(k))]

\* the page with n links
LinksPage(n) == Page(<< LinksBlock(n) >>)

\* the elements of S in the order of the document, and in the reverse order
Ascending(S) ==
    LET n == Cardinality(S)
    IN  [k \in 1..n |-> CHOOSE i \in S : Cardinality({ j \in S : j < i }) = k - 1]
Descending(S) ==
    LET n == Cardinality(S)
    IN  [k \in 1..n |-> CHOOSE i \in S : Cardinality({ j \in S : j > i }) = k - 1]

\* the navigation bar with its dropdown in the markup (a stylesheet hides it
\* until About is hovered; page.content() returns the markup, shown or not)
MenuPage == WithBlock(Page(<< NavBlock >>), DropdownBlock)

InitHover ==
    /\ pc = "hover_reset"
    /\ \E p \in { LinksPage(n) : n \in LinkCounts } \cup { MenuPage } :
         /\ base_page = p
         /\ elem_order \in { Ascending(FoundElements(base_page)),
                              Descending(FoundElements(base_page)) }
    /\ bm = [playwright |-> TRUE, browser |-> TRUE, page |-> TRUE, cookie_dismissed |-> TRUE]
    /\ banner_calls = 1
    /\ page_url = BaseUrl
    /\ page_doc = base_page
    /\ interactive_elements = CandidatesOf(base_page, elem_order)
    /\ clickable_elements = Clickable(interactive_elements)
    /\ idx = Len(ClickList) + 1
    /\ strategy = 1
    /\ local = NoLocal
    /\ changes = NoChanges
    /\ modal_details = None
    /\ newly_appeared = << >>
    /\ gherkin_scenarios = << >>
    /\ popup_found = FALSE
    /\ hover_found = FALSE
    /\ raised = FALSE
    /\ outcome = "none"
    /\ close_result = "none"
    /\ init_failure = "none"
    /\ renav_failed = FALSE
    /\ cand_failed = FALSE
    /\ fresh = FALSE
    /\ attempt = 0
    /\ reads = << >>
    /\ read_result = NoRead
    /\ navs = << >>

NextHover ==
    \/ HoverReset
    \/ HoverLoopEnd
    \/ HoverInitial
    \/ HoverTry
    \/ HoverFinal
    \/ HoverResult
    \/ HoverWrite
    \/ FinallyClause
    \/ ResultHandling

SpecHover == InitHover /\ [][NextHover]_vars

(***************************************************************************)
(* get_page_content on its own: one call on a page of at most MaxBlocks    *)
(* blocks, each read attempt ending in one of the ways a read can end      *)
(***************************************************************************)

\* max_retries = 3
max_retries == 3

\* how wait_for_load_state and page.content() of one attempt end: the markup,
\* PlaywrightTimeout, an exception whose message holds "navigating", or
\* another exception
ReadOutcomes == { "ok", "timeout", "navigating", "other" }

\* a variant of the except clauses that retries after any exception
AfterReadErrorRetryAny(err, n) ==
    IF n < max_retries - 1 THEN "retry" ELSE "raise"

\* the two except clauses of the loop body, in attempt n (from 0): continue
\* after a timeout or a navigating error while n < max_retries - 1, else raise
AfterReadError(err, n) ==
    CASE err = "timeout" -> IF n < max_retries - 1 THEN "retry" ELSE "raise"
      [] err = "navigating" -> IF n < max_retries - 1 THEN "retry" ELSE "raise"
      [] OTHER -> "raise"

InitContent ==
    /\ pc = "read"
    /\ base_page = Page(<< >>)
    /\ changes = NoChanges
    /\ \E started \in BOOLEAN :
         /\ bm = [playwright |-> started, browser |-> started, page |-> started,
                  cookie_dismissed |-> started]
         /\ banner_calls = IF started THEN 1 ELSE 0
    /\ page_doc \in Pages
    /\ page_url = BaseUrl
    /\ elem_order = << >>
    /\ interactive_elements = << >>
    /\ clickable_elements = << >>
    /\ idx = 1
    /\ strategy = 1
    /\ local = NoLocal
    /\ modal_details = None
    /\ newly_appeared = << >>
    /\ gherkin_scenarios = << >>
    /\ popup_found = FALSE
    /\ hover_found = FALSE
    /\ raised = FALSE
    /\ outcome = "none"
    /\ close_result = "none"
    /\ init_failure = "none"
    /\ renav_failed = FALSE
    /\ cand_failed = FALSE
    /\ fresh = FALSE
    /\ attempt = 0
    /\ reads = << >>
    /\ read_result = NoRead
    /\ navs = << >>

\* if not self.page: raise ConnectionError("Browser is not started.")
ReadNoPage ==
    /\ pc = "read"
    /\ ~bm.page
    /\ read_result' = [kind |-> "raised", error |-> "connection"]
    /\ pc' = "read_done"
    /\ UNCHANGED << attempt, reads, navs >>
    /\ UNCHANGED << listVars, idx, pageVars, bodyVars, resultVars, endVars, renav_failed,
                    cand_failed >>

\* one iteration of for attempt in range(max_retries): the read, and the
\* except clause its exception lands in
ReadAttempt ==
    /\ pc = "read"
    /\ bm.page
    /\ attempt < max_retries
    /\ \E r \in ReadOutcomes :
        /\ reads' = Append(reads, r)
        /\ IF r = "ok"
           THEN /\ read_result' = [kind |-> "returned", content |-> page_doc]
                /\ pc' = "read_done"
                /\ UNCHANGED attempt
           ELSE IF AfterReadError(r, attempt) = "retry"
           THEN /\ attempt' = attempt + 1
                /\ pc' = "read"
                /\ UNCHANGED read_result
           ELSE /\ read_result' = [kind |-> "raised", error |-> r]
                /\ pc' = "read_done"
                /\ UNCHANGED attempt
    /\ UNCHANGED << listVars, idx, pageVars, bodyVars, resultVars, endVars, renav_failed,
                    cand_failed, navs >>

NextContent ==
    \/ ReadNoPage
    \/ ReadAttempt

\* the coroutine is run to its end: every await of the call is bounded by a
\* timeout or is a sleep
SpecContent == InitContent /\ [][NextContent]_vars /\ WF_vars(NextContent)

(***************************************************************************)
(* go_to on its own: up to MaxGoTos calls on one BrowserManager, started   *)
(* or not, each ending in one of the ways a go_to can end                  *)
(***************************************************************************)

\* the most go_to calls of such a session
MaxGoTos == 3

InitSession ==
    /\ pc = "session"
    /\ base_page \in Pages
    /\ \E started \in BOOLEAN :
         bm = [playwright |-> TRUE, browser |-> TRUE, page |-> started,
               cookie_dismissed |-> FALSE]
    /\ banner_calls = 0
    /\ page_url = "about:blank"
    /\ page_doc = << >>
    /\ elem_order = << >>
    /\ interactive_elements = << >>
    /\ clickable_elements = << >>
    /\ idx = 1
    /\ strategy = 1
    /\ local = NoLocal
    /\ changes = NoChanges
    /\ modal_details = None
    /\ newly_appeared = << >>
    /\ gherkin_scenarios = << >>
    /\ popup_found = FALSE
    /\ hover_found = FALSE
    /\ raised = FALSE
    /\ outcome = "none"
    /\ close_result = "none"
    /\ init_failure = "none"
    /\ renav_failed = FALSE
    /\ cand_failed = FALSE
    /\ fresh = FALSE
    /\ attempt = 0
    /\ reads = << >>
    /\ read_result = NoRead
    /\ navs = << >>

\* await browser.go_to(url), and how it ended
GoTo ==
    /\ pc = "session"
    /\ Len(navs) < MaxGoTos
    /\ \/ GoToDone /\ navs' = Append(navs, "ok")
       \/ GoToLoadFailed /\ navs' = Append(navs, "load_failed")
       \/ GoToLateFailed /\ navs' = Append(navs, "late_failed")
    /\ UNCHANGED << pc, listVars, idx, bodyVars, resultVars, endVars, renav_failed,
                    cand_failed, attempt, reads, read_result >>

NextSession == GoTo

SpecSession == InitSession /\ [][NextSession]_vars

(***************************************************************************)
(* Properties of generate_tests and of the modal detector                  *)
(***************************************************************************)

\* C1: the browser session is closed before the call completes, on the success
\* path and on the error path alike, and a failure of the close itself is
\* swallowed: it changes neither the findings nor whether the call raises.
C1_SessionAlwaysClosed ==
    /\ [](pc \in {"result", "done"} => close_result # "none")
    /\ [][pc = "finally" =>
            /\ close_result' \in CloseResults
            /\ pc' = (IF raised THEN "done" ELSE "result")
            /\ raised' = raised
            /\ gherkin_scenarios' = gherkin_scenarios
            /\ (outcome' = "error") = raised]_vars

\* the call returned its findings although close() raised
C1_Witness ==
    /\ pc = "done"
    /\ close_result = "raised"
    /\ outcome = "ok"
    /\ gherkin_scenarios # << >>

\* C2: a failure tied to one candidate (the locator chain exhausted, a snapshot
\* that cannot be read, an analysis or writer error) is contained: the call
\* does not raise, nothing is recorded for the candidate, and the loop goes on
\* with the next candidate.
C2_CandidateFailureContained ==
    [][cand_failed' =>
         /\ ~raised'
         /\ pc' \in {"click_loop", "click_result", "hover_loop", "hover_result"}
         /\ gherkin_scenarios' = gherkin_scenarios
         /\ (pc \in {"click_result", "click_write"} => pc' = "click_loop")
         /\ (pc \in {"hover_result", "hover_write"} => pc' = "hover_loop")
         /\ (pc' \in {"click_loop", "hover_loop"} => idx' = idx + 1)]_vars

\* the second candidate of the click loop is reached after the four locator
\* strategies all failed for the first
C2_Witness ==
    /\ pc = "click_loop"
    /\ cand_failed
    /\ strategy = 4
    /\ changes = Changes(base_page, base_page, BaseUrl, BaseUrl, FALSE, FALSE)
    /\ idx = 2
    /\ ~raised

\* C3, as stated: whenever a navigation to the base URL fails, at whatever
\* point of the call, the call ends with an error.
C3_AnyNavigationFailureFatal ==
    (pc = "done" /\ (init_failure \in {"start", "goto"} \/ renav_failed))
        => outcome = "error"

\* C3, amended: a failure of the browser start or of the first navigation to
\* the base URL is fatal (the call ends with an error and without findings),
\* while a failure of a later navigation to the base URL never raises.
C3_InitialNavigationFailureFatal ==
    /\ init_failure \in {"start", "goto"} =>
          /\ pc \in {"except", "finally", "done"}
          /\ (pc = "finally" => raised)
          /\ (pc = "done" => outcome = "error")
          /\ gherkin_scenarios = << >>
    /\ renav_failed => (init_failure = "none" /\ ~raised /\ pc # "except")

\* the first go_to failed and the call ended with the error, the session closed
C3_Witness ==
    /\ pc = "done"
    /\ init_failure = "goto"
    /\ outcome = "error"
    /\ close_result # "none"

\* C4: every hover is made on a page that was navigated to the base URL since
\* the previous probe.
C4_HoverAfterNavigation ==
    [][(pc = "hover_try" /\ pc' = "hover_final") => fresh]_vars

\* C5: every click is made on a page just navigated to the base URL, and a
\* candidate whose navigation fails is skipped without being clicked.
C5_ClickAfterNavigation ==
    [][/\ (pc = "click_try" /\ pc' = "click_settle") =>
             (fresh /\ page_url = BaseUrl)
       /\ (pc = "click_loop" /\ cand_failed') =>
             /\ pc' = "click_loop"
             /\ idx' = idx + 1
             /\ gherkin_scenarios' = gherkin_scenarios]_vars

\* the first candidate was skipped on a failed navigation and the second has
\* been clicked
C5_Witness ==
    /\ pc = "click_settle"
    /\ idx = 2
    /\ renav_failed

\* a click has moved the page to another domain and the probe has returned
LeftDomain ==
    /\ pc = "click_result"
    /\ Netloc(page_url) # Netloc(local.initial_url)

C7_SameDomainAnalysed ==
    (/\ pc = "click_result"
     /\ page_url # local.initial_url
     /\ Netloc(page_url) = Netloc(local.initial_url))
        => ClickVerdict(changes) = "analyze"

\* C8: the modal detector never returns a finding without buttons.
C8_FindingHasButtons ==
    (pc = "analyzed" /\ modal_details # None) => modal_details.buttons # << >>

\* C9: a popup finding is made only of a modal finding with at least one
\* button; a finding without buttons is discarded and the loop goes on with
\* the next candidate.
C9_PopupNeedsButtons ==
    /\ [](/\ pc = "click_write" =>
               (modal_details # None /\ modal_details.buttons # << >>)
          /\ \A k \in 1..Len(gherkin_scenarios) :
               gherkin_scenarios[k].type = "popup" =>
                  /\ gherkin_scenarios[k].modal # None
                  /\ gherkin_scenarios[k].modal.buttons # << >>)
    /\ [][(/\ pc = "click_result"
           /\ modal_details' # None
           /\ modal_details'.buttons = << >>) =>
              /\ pc' = "click_loop"
              /\ idx' = idx + 1
              /\ gherkin_scenarios' = gherkin_scenarios]_vars

\* the detector returned a finding without buttons and the loop has moved on
C9_Witness ==
    /\ pc = "click_loop"
    /\ idx = 2
    /\ modal_details # None
    /\ modal_details.buttons = << >>
    /\ gherkin_scenarios = << >>

\* C10: on two identical snapshots the modal detector returns no finding.
C10_IdenticalSnapshotsNoFinding ==
    (pc = "analyzed" /\ changes.initial = changes.final) => modal_details = None

\* the detector has run on two copies of a page holding a dialog, which the
\* selectors match, and a long section, which the fallback scan reaches
C10_Witness ==
    /\ pc = "analyzed"
    /\ changes.initial = changes.final
    /\ changes.final = Page(<< DialogBlock, BannerBlock >>)
    /\ modal_details = None

(***************************************************************************)
(* Properties of the snapshot differ and of the candidate finder           *)
(***************************************************************************)

UpperLetters == "ABCDEFGHIJKLMNOPQRSTUVWXYZ"
LowerLetters == "abcdefghijklmnopqrstuvwxyz"

\* the character c in lower case
LowerChar(c) ==
    LET at == { k \in 1..Len(UpperLetters) : SubSeq(UpperLetters, k, k) = c }
    IN  IF at = {} THEN c
        ELSE LET k == CHOOSE x \in at : TRUE IN SubSeq(LowerLetters, k, k)

RECURSIVE Lower(_)
\* the text s in lower case
Lower(s) ==
    IF Len(s) = 0 THEN ""
    ELSE LowerChar(SubSeq(s, 1, 1)) \o Lower(SubSeq(s, 2, Len(s)))

\* the noise keywords of a revealed text
NoiseKeywords == { "video", "supported", "unavailable", "loading", "advertisement" }

\* whether the text t holds a noise keyword, in any case
IsNoise(t) == \E kw \in NoiseKeywords : Contains(Lower(t), kw)

\* C11: the snapshot differ applied to two identical snapshots returns the
\* empty sequence, whichever of its two paths it takes.
C11_IdenticalSnapshotsNothingNew ==
    (pc = "compared" /\ changes.initial = changes.final) => newly_appeared = << >>

\* the differ has run on two copies of a page with links, buttons and a
\* container with text, and found nothing
C11_Witness ==
    /\ pc = "compared"
    /\ changes.initial = changes.final
    /\ changes.final = Page(<< NavBlock, DialogBlock >>)
    /\ newly_appeared = << >>

\* C12: every item the snapshot differ returns has a text that is not a text
\* of the initial snapshot and that holds no noise keyword.
C12_RevealedItemsNewAndQuiet ==
    pc = "compared" =>
        \A k \in 1..Len(newly_appeared) :
            /\ newly_appeared[k].text \notin TextsOf(changes.initial)
            /\ ~IsNoise(newly_appeared[k].text)

\* the href of the element the k-th entry of the finder's result was made of
EntryHref(k) == Attr(base_page[KeptElements(base_page, elem_order)[k]], "href")

\* C13: the candidate finder's result never holds two entries with the same
\* text and the same href.
C13_NoDuplicateCandidates ==
    pc = "found" =>
        \A i, j \in 1..Len(interactive_elements) :
            i # j => \/ interactive_elements[i].text # interactive_elements[j].text
                     \/ EntryHref(i) # EntryHref(j)

\* C14: what a call finds is determined by the pages it reads: the candidates
\* and their order are the same for every order the set found_elements may be
\* iterated in, and compare_doms has one possible result.
C14_FindingsDetermined ==
    /\ pc = "click_loop" =>
          \A o \in Orderings(FoundElements(base_page)) :
              /\ interactive_elements = CandidatesOf(base_page, o)
              /\ clickable_elements = Clickable(CandidatesOf(base_page, o))
    /\ pc = "hover_result" =>
          Cardinality(compare_doms(changes.initial, changes.final)) = 1

(***************************************************************************)
(* Properties of the loops of generate_tests                               *)
(***************************************************************************)

\* C15: a text of the scenario writer is added to the results only if it
\* holds the marker "Scenario:".
C15_OnlyMarkedScenarios ==
    \A k \in 1..Len(gherkin_scenarios) :
        Contains(gherkin_scenarios[k].text, "Scenario:")

\* C16: the differ and the modal detector are reached only through the step
\* that captures the final snapshot, never with the initial snapshot given
\* twice after a failed or skipped locate, hover or click.
C16_FinalSnapshotCaptured ==
    [][/\ pc' = "hover_result" => pc = "hover_final"
       /\ (pc' = "click_result" /\ ClickVerdict(changes') = "analyze") =>
             (pc = "click_settle" /\ ~cand_failed')]_vars

\* the steps of the click loop and of the hover loop
ClickSteps ==
    { "click_loop", "click_initial", "click_try", "click_settle", "click_result",
      "click_write" }
HoverSteps ==
    { "hover_reset", "hover_loop", "hover_try", "hover_final", "hover_result",
      "hover_write" }

\* the scenarios of one type among the results
ScenariosOf(type) ==
    { k \in 1..Len(gherkin_scenarios) : gherkin_scenarios[k].type = type }

\* C18: each loop ends with its first accepted finding: once a popup scenario
\* is accepted no further candidate is clicked, once a hover scenario is
\* accepted no further candidate is hovered, and the results hold at most one
\* popup scenario and at most one hover scenario.
C18_FirstMatchWins ==
    /\ popup_found => pc \notin ClickSteps
    /\ hover_found => pc \notin (ClickSteps \cup HoverSteps)
    /\ Cardinality(ScenariosOf("popup")) = (IF popup_found THEN 1 ELSE 0)
    /\ Cardinality(ScenariosOf("hover")) = (IF hover_found THEN 1 ELSE 0)
    /\ Len(gherkin_scenarios) <= 2

\* the call ended with one scenario of each type, the hover loop having
\* stopped before its last candidate
C18_Witness ==
    /\ pc = "done"
    /\ popup_found
    /\ hover_found
    /\ Len(gherkin_scenarios) = 2
    /\ idx < Len(HoverList)

\* C17: no call hovers more than MAX_HOVERABLE_ELEMENTS (20) candidates.
C17_HoverCap ==
    pc \in {"hover_try", "hover_final", "hover_result", "hover_write"} =>
        idx <= MAX_HOVERABLE_ELEMENTS

(***************************************************************************)
(* Properties of the modal detector's filters                              *)
(***************************************************************************)

\* C19: the modal detector never accepts a container whose text holds
\* "video", in any case.
C19_VideoContainerRejected ==
    (pc = "analyzed" /\ modal_details # None) =>
        ~Contains(Lower(modal_details.full_text), "video")

\* the keywords of a dialog's controls
ControlKeywords ==
    { "cancel", "close", "ok", "continue", "stay", "leave", "yes", "no" }

\* the texts of the buttons of a finding, joined
JoinedButtonTexts(details) ==
    JoinWords([k \in 1..Len(details.buttons) |-> details.buttons[k].text])

\* C20: the modal detector accepts a container only if the joined texts of
\* its buttons and links, in lower case, hold one of the control keywords.
C20_ControlKeywordRequired ==
    (pc = "analyzed" /\ modal_details # None) =>
        \E kw \in ControlKeywords :
            Contains(Lower(JoinedButtonTexts(modal_details)), kw)

(***************************************************************************)
(* The confirmation dialog of the Delete Account button                    *)
(***************************************************************************)

\* the click probe that is being carried out is the one on Delete Account
OnDeleteAccount ==
    /\ idx \in 1..Len(ClickList)
    /\ ClickList[idx].text = "Delete Account"

\* the texts of the buttons of a finding, in their order
ButtonTexts(details) == [k \in 1..Len(details.buttons) |-> details.buttons[k].text]

\* C21: whatever text the initial page holds, when the click on Delete Account
\* inserts the dialog <div role="dialog"><h2>Are you sure?</h2>
\* <button>Cancel</button><button>Confirm</button></div> and the analysis
\* does not fail, the click yields a finding with the title "Are you sure?"
\* and exactly the buttons Cancel and Confirm
C21_DeleteAccountDialogFound ==
    [][ ( /\ pc = "click_result"
          /\ OnDeleteAccount
          /\ ClickVerdict(changes) = "analyze"
          /\ changes.final = WithBlock(changes.initial, DialogBlock)
          /\ ~cand_failed' )
        => ( /\ pc' = "click_write"
             /\ modal_details'.kind = "modal"
             /\ modal_details'.title = "Are you sure?"
             /\ ButtonTexts(modal_details') = << "Cancel", "Confirm" >> ) ]_vars

(***************************************************************************)
(* The dropdown of the About link                                          *)
(***************************************************************************)

\* C22: on the page whose markup holds the link About and the dropdown link
\* Team (href /about/team), hidden until About is hovered, a hover of About
\* that was carried out yields a finding that reveals Team with its href
\* resolved against the base URL
C22_HiddenDropdownRevealed ==
    [][ ( /\ pc = "hover_result"
          /\ base_page = MenuPage
          /\ changes.initial = MenuPage
          /\ idx \in 1..Len(HoverList)
          /\ HoverList[idx].text = "About"
          /\ ~cand_failed
          /\ ~cand_failed' )
        => ( /\ pc' = "hover_write"
             /\ \E k \in 1..Len(newly_appeared') :
                   /\ newly_appeared'[k].text = "Team"
                   /\ newly_appeared'[k].href = "https://a.com/about/team" ) ]_vars

(***************************************************************************)
(* Calls without findings                                                  *)
(***************************************************************************)

\* C23, as stated: the call ends with an error only when the session could
\* not be set up (the browser start, the first navigation or the first read
\* of the page failed).
C23_ErrorOnlyIfSessionFatal ==
    (pc = "done" /\ outcome = "error") => init_failure # "none"

\* C23, amended: a call whose session was set up and in which no probe gave a
\* finding ends with the empty response and raises nothing; the outer except
\* clause raises only when the session could not be set up; and the one other
\* error is that of a call with findings whose feature file cannot be saved.
C23_EmptyResultIsNoError ==
    /\ (pc = "done" /\ gherkin_scenarios = << >> /\ init_failure = "none")
          => (outcome = "empty" /\ ~raised)
    /\ raised => init_failure # "none"
    /\ (pc = "done" /\ outcome = "error")
          => (init_failure # "none" \/ (gherkin_scenarios # << >> /\ ~raised))

\* a call in which probes failed, the reset before the hover phase too, and
\* which ended with the empty response
C23_Witness ==
    /\ pc = "done"
    /\ outcome = "empty"
    /\ gherkin_scenarios = << >>
    /\ renav_failed
    /\ idx > 1
    /\ ~raised

(***************************************************************************)
(* The retries of get_page_content                                         *)
(***************************************************************************)

\* the read attempts made so far, but the last
EarlierReads == IF Len(reads) = 0 THEN << >> ELSE SubSeq(reads, 1, Len(reads) - 1)

\* C24: a get_page_content call makes at most 3 read attempts; every attempt
\* but the last ended in a timeout or a navigating error; an attempt ending in
\* another error is the last and the call raises that error; an attempt
\* that reads the page is the last and the call returns the markup; and the
\* call terminates, having returned or raised.
C24_ReadAttemptsBounded ==
    /\ [](/\ Len(reads) <= 3
          /\ \A k \in 1..Len(EarlierReads) : EarlierReads[k] \in {"timeout", "navigating"}
          /\ (Len(reads) > 0 /\ reads[Len(reads)] = "other")
                => (pc = "read_done" /\ read_result = [kind |-> "raised", error |-> "other"])
          /\ (Len(reads) > 0 /\ reads[Len(reads)] = "ok")
                => (pc = "read_done"
                    /\ read_result = [kind |-> "returned", content |-> page_doc])
          /\ pc = "read_done" => read_result.kind \in {"returned", "raised"})
    /\ <>(pc = "read_done")

\* a call that read the page at its third attempt, after a timeout and a
\* navigating error
C24_Witness ==
    /\ pc = "read_done"
    /\ reads = << "timeout", "navigating", "ok" >>
    /\ read_result.kind = "returned"
    /\ read_result.content = page_doc
    /\ Len(page_doc) > 2

(***************************************************************************)
(* The locator strategies of a probe                                       *)
(***************************************************************************)

\* the order of the strategies: by href, by exact text, by partial text, by
\* role (link or button by name)
LocatorOrder ==
    << {"href"}, {"exact_text"}, {"partial_text"}, {"role_link", "role_button"} >>

\* C25: the k-th locator strategy a click or hover probe tries is the k-th of
\* the order href-exact-match, exact text, partial text, role-based
C25_LocatorOrder ==
    /\ pc = "click_try" => ClickLocators[strategy] \in LocatorOrder[strategy]
    /\ pc = "hover_try" => HoverLocators[strategy] \in LocatorOrder[strategy]

(***************************************************************************)
(* The cookie banner                                                       *)
(***************************************************************************)

\* some go_to of the session got its page loaded
PageLoaded == \E k \in 1..Len(navs) : navs[k] # "load_failed"

\* C26: in one browser session the cookie banner is handled in the first go_to
\* whose page load succeeds and in no other: after any number of go_to calls
\* there was one handling if some page load succeeded and none otherwise,
\* and the banner is pending exactly as long as there was none.
C26_BannerHandledOnce ==
    /\ banner_calls = (IF PageLoaded THEN 1 ELSE 0)
    /\ bm.cookie_dismissed <=> PageLoaded

\* a session whose first page load failed and whose next two succeeded: the
\* banner was handled once
C26_Witness ==
    /\ navs = << "load_failed", "ok", "ok" >>
    /\ banner_calls = 1
    /\ bm.cookie_dismissed
    /\ Len(base_page) > 2

(***************************************************************************)
(* Links that leave the site                                               *)
(***************************************************************************)

\* C27: whichever locator strategy of a click probe resolves an element whose
\* href points to another host than the page's, the element is not clicked:
\* the strategy ends the probe as skipped
C27_ExternalNeverClicked ==
    pc = "click_try" =>
        \A target \in Targets \ { NotFound } :
            IsExternal(target.href, local.initial_url) =>
                ClickStrategyOutcome(strategy, target, TRUE, local.initial_url) = "external"

(***************************************************************************)
(* The popup scenario and the hover phase                                  *)
(***************************************************************************)

\* C28: a popup scenario accepted in the click phase stays the first scenario
\* of the call through everything that follows; the try statement raises
\* nothing after it, and nothing but the result handling ends the call; the
\* reset before the hover phase, failed or not, goes on to the hover loop
\* with the scenarios it found, and with no hover candidate when its go_to
\* failed.
C28_PopupScenarioKept ==
    /\ [](popup_found =>
            /\ Len(gherkin_scenarios) >= 1
            /\ gherkin_scenarios[1].type = "popup"
            /\ ~raised
            /\ pc # "except"
            /\ pc # "done" => outcome = "none"
            /\ pc = "done" => outcome \in {"ok", "error"})
    /\ [][popup_found => (popup_found' /\ gherkin_scenarios'[1] = gherkin_scenarios[1])]_vars
    /\ [][pc = "hover_reset"
            => /\ pc' = "hover_loop"
               /\ gherkin_scenarios' = gherkin_scenarios
               /\ (renav_failed' /\ ~renav_failed) => interactive_elements' = << >>]_vars

\* a call that found a popup, failed to reset the page before the hover phase
\* and returned the popup scenario
C28_Witness ==
    /\ pc = "done"
    /\ popup_found
    /\ renav_failed
    /\ interactive_elements = << >>
    /\ outcome = "ok"
    /\ Len(gherkin_scenarios) = 1
    /\ gherkin_scenarios[1].type = "popup"

=============================================================================
